---- MODULE Spec2Model ----
(***************************************************************************)
(* Model of bigquery_manager.manager.BigQueryManager: SQL templating,      *)
(* parameter marshalling and the calls it makes on the wrapped client.     *)
(*                                                                         *)
(* The manager holds no state of its own besides the client reference, so  *)
(* the state of the model is the observable trace of one operation called  *)
(* on a constructed manager: the call with its arguments, the calls it     *)
(* made on the wrapped client (in order) and what the caller got back.     *)
(* Every call starts from the constructed state.  The wrapped client is    *)
(* the environment: each of its entry points either returns a value or     *)
(* raises, chosen nondeterministically.                                    *)
(*                                                                         *)
(* Text (a Python str) is a sequence of string tokens; concatenation of    *)
(* Python strings is concatenation of token sequences.  Render gives the   *)
(* text as one string.                                                     *)
(***************************************************************************)
EXTENDS Integers, Sequences, FiniteSets, TLC

\* op: the operation called and its arguments
\* client: how the wrapped client behaves during the operation
\* calls: the calls made on the wrapped client (and on a result iterator), in order
\* outcome: what the caller gets: a returned value or a raised exception
VARIABLES op, client, calls, outcome

vars == <<op, client, calls, outcome>>

(***************************************************************************)
(* Bounds of the explored input space.                                     *)
(***************************************************************************)
MaxParams == 2
MaxRows == 2
MaxErrors == 2

(***************************************************************************)
(* Python values.                                                          *)
(***************************************************************************)
None == [t |-> "none", s |-> "", i |-> 0]
Str(s) == [t |-> "str", s |-> s, i |-> 0]
Int_(i) == [t |-> "int", s |-> "", i |-> i]

\* bool(v) of a scalar: None, 0 and "" are falsy
TruthyVal(v) ==
    CASE v.t = "none" -> FALSE
      [] v.t = "str" -> v.s # ""
      [] v.t = "int" -> v.i # 0

\* str(v), as an f-string formats a value
Format(v) ==
    CASE v.t = "none" -> "None"
      [] v.t = "str" -> v.s
      [] v.t = "int" -> ToString(v.i)

\* An optional collection: None, a list or a tuple (any non-list sequence)
NoneSeq == [kind |-> "none", items |-> <<>>]
List(items) == [kind |-> "list", items |-> items]
Tuple(items) == [kind |-> "tuple", items |-> items]

\* bool(c): None and empty sequences are falsy
Truthy(c) == c.kind # "none" /\ Len(c.items) > 0

\* isinstance(c, list)
IsList(c) == c.kind = "list"

\* c or []
OrEmpty(c) == IF Truthy(c) THEN c.items ELSE <<>>

\* A dict is a function from its keys; d.get(k) is None for a missing key
EmptyDict == [k \in {} |-> None]
Get(d, k) == IF k \in DOMAIN d THEN d[k] ELSE None

\* d[k] = v
SetItem(d, k, v) == [x \in (DOMAIN d) \cup {k} |-> IF x = k THEN v ELSE d[x]]

\* sep.join(parts), parts a sequence of texts
RECURSIVE Join(_, _)
Join(sep, parts) ==
    IF Len(parts) = 0 THEN <<>>
    ELSE IF Len(parts) = 1 THEN parts[1]
    ELSE parts[1] \o <<sep>> \o Join(sep, Tail(parts))

\* The backquote character (U+0060), which a TLA+ string cannot hold
BQ == "[backquote]"

\* the text as one string
RECURSIVE Render(_)
Render(text) == IF Len(text) = 0 THEN "" ELSE Head(text) \o Render(Tail(text))

(***************************************************************************)
(* The pure helpers of BigQueryManager.                                    *)
(***************************************************************************)
\* faulty variant: one marker too few
generate_invoke_sql_short(sp, params) ==
    LET placeholders == Join(", ", [i \in 1..(Len(OrEmpty(params)) - 1) |-> <<"?">>])
    IN <<"CALL ", BQ, sp, BQ, "(">> \o placeholders \o <<");">>

generate_invoke_sql(sp, params) ==
    LET placeholders == Join(", ", [i \in 1..Len(OrEmpty(params)) |-> <<"?">>])
    IN <<"CALL ", BQ, sp, BQ, "(">> \o placeholders \o <<");">>

\* faulty variant: terms joined by OR
generate_select_sql_or(table, select, filters) ==
    LET sql == <<"SELECT ", select, " FROM ", BQ, table, BQ>>
        query_filter == [i \in 1..Len(filters.items) |->
            <<Format(Get(filters.items[i], "name")), " = @",
              Format(Get(filters.items[i], "name"))>>]
    IN IF IsList(filters) /\ Truthy(filters)
       THEN sql \o <<" WHERE ">> \o Join(" OR ", query_filter) \o <<";">>
       ELSE sql \o <<";">>

generate_select_sql(table, select, filters) ==
    LET sql == <<"SELECT ", select, " FROM ", BQ, table, BQ>>
        query_filter == [i \in 1..Len(filters.items) |->
            <<Format(Get(filters.items[i], "name")), " = @",
              Format(Get(filters.items[i], "name"))>>]
    IN IF IsList(filters) /\ Truthy(filters)
       THEN sql \o <<" WHERE ">> \o Join(" AND ", query_filter) \o <<";">>
       ELSE sql \o <<";">>

\* ScalarQueryParameter(name, type_, value)
ScalarQueryParameter(name, type, value) ==
    [name |-> name, type_ |-> type, value |-> value]

\* faulty variant: parameters bound in reverse order
convert_params_reversed(params) ==
    IF Truthy(params)
    THEN List([i \in 1..Len(params.items) |->
            LET param == params.items[Len(params.items) + 1 - i]
            IN ScalarQueryParameter(Get(param, "name"), Get(param, "type"),
                                    Get(param, "value"))])
    ELSE NoneSeq

convert_params(params) ==
    IF Truthy(params)
    THEN List([i \in 1..Len(params.items) |->
            ScalarQueryParameter(Get(params.items[i], "name"),
                                 Get(params.items[i], "type"),
                                 Get(params.items[i], "value"))])
    ELSE NoneSeq

\* QueryJobConfig(**job_configs); NoJobConfig is job_config=None
NoJobConfig == [isNone |-> TRUE, options |-> EmptyDict]
QueryJobConfig(job_configs) == [isNone |-> FALSE, options |-> job_configs]

\* faulty variant: a configuration object is always built
set_job_config_always(job_configs) == QueryJobConfig(job_configs)

set_job_config(job_configs) ==
    IF DOMAIN job_configs # {} THEN QueryJobConfig(job_configs) ELSE NoJobConfig

\* next(iter(query_res), None): the first row (None when there is none) and
\* the number of items pulled from the iterator
first_row(query_res) ==
    IF Len(query_res) > 0 THEN [row |-> List(query_res[1]), consumed |-> 1]
    ELSE [row |-> NoneSeq, consumed |-> 0]

\* faulty variant: the first element of the last row
get_one_result_last(query_res) ==
    LET row == IF Len(query_res) > 0 THEN List(query_res[Len(query_res)]) ELSE NoneSeq
    IN IF Truthy(row) THEN row.items[1] ELSE None

\* row[0] if row else None
get_one_result(query_res) ==
    LET row == first_row(query_res).row
    IN IF Truthy(row) THEN row.items[1] ELSE None

(***************************************************************************)
(* What the caller of an operation observes.                               *)
(***************************************************************************)
NoOutcome == [kind |-> "none", exc |-> "", errs |-> <<>>, rows |-> <<>>, val |-> None]
\* return of a result set (query, invoke, select)
Returned(rows) == [kind |-> "return", exc |-> "", errs |-> <<>>, rows |-> rows, val |-> None]
\* return of a scalar (get_one_result, get_last_id, get_service_item); None for insert
ReturnedVal(v) == [kind |-> "return", exc |-> "", errs |-> <<>>, rows |-> <<>>, val |-> v]
\* an exception of class exc, with the argument it was constructed with
Raised(exc, errs) == [kind |-> "raise", exc |-> exc, errs |-> errs, rows |-> <<>>, val |-> None]

Effect(cs, out) == [calls |-> cs, outcome |-> out]

(***************************************************************************)
(* The wrapped client: what one use of it does.  For query():              *)
(* step = "query_raises": client.query raises err;                         *)
(* step = "result_raises": the job result() raises err;                  *)
(* step = "ok": result() returns rows.                                     *)
(* For insert(): step = "get_table_raises", "insert_rows_raises" or "ok",  *)
(* where insert_rows returns the per-row errors errs.                      *)
(***************************************************************************)
QueryCall(sql, job_config) == [fn |-> "query", query |-> sql, job_config |-> job_config]
ResultCall == [fn |-> "result"]
GetTableCall(table) == [fn |-> "get_table", table |-> table]
TableHandle(table) == [handle |-> table]
InsertRowsCall(handle, data, selected_fields, kwargs) ==
    [fn |-> "insert_rows", table |-> handle, rows |-> data,
     selected_fields |-> selected_fields, kwargs |-> kwargs]
\* one item pulled from a result iterator
IterNextCall == [fn |-> "next"]

(***************************************************************************)
(* The operations of BigQueryManager: the client calls made and the        *)
(* outcome, given the arguments and the client's behaviour env.            *)
(***************************************************************************)
\* faulty variant: a failed submission is retried once
query_retry(sql, params, job_configs, env) ==
    LET merged == IF Truthy(params)
                  THEN SetItem(job_configs, "query_parameters", convert_params(params))
                  ELSE job_configs
        job_config == set_job_config(merged)
    IN  CASE env.step = "query_raises" ->
               Effect(<<QueryCall(sql, job_config), QueryCall(sql, job_config)>>,
                      Raised(env.err, <<>>))
          [] env.step = "result_raises" ->
               Effect(<<QueryCall(sql, job_config), ResultCall>>, Raised(env.err, <<>>))
          [] env.step = "ok" ->
               Effect(<<QueryCall(sql, job_config), ResultCall>>, Returned(env.rows))

query(sql, params, job_configs, env) ==
    LET merged == IF Truthy(params)
                  THEN SetItem(job_configs, "query_parameters", convert_params(params))
                  ELSE job_configs
        job_config == set_job_config(merged)
    IN  CASE env.step = "query_raises" ->
               Effect(<<QueryCall(sql, job_config)>>, Raised(env.err, <<>>))
          [] env.step = "result_raises" ->
               Effect(<<QueryCall(sql, job_config), ResultCall>>, Raised(env.err, <<>>))
          [] env.step = "ok" ->
               Effect(<<QueryCall(sql, job_config), ResultCall>>, Returned(env.rows))

invoke(sp, params, job_configs, env) ==
    query(generate_invoke_sql(sp, params), params, job_configs, env)

select(table, sel, filters, job_configs, env) ==
    query(generate_select_sql(table, sel, filters), filters, job_configs, env)

\* faulty variant: the table handle is fetched before the rows are looked at
insert_eager(destination_table, data, selected_fields, kwargs, env) ==
    IF ~Truthy(data) THEN Effect(<<GetTableCall(destination_table)>>, ReturnedVal(None))
    ELSE CASE env.step = "get_table_raises" ->
                Effect(<<GetTableCall(destination_table)>>, Raised(env.err, <<>>))
           [] env.step = "insert_rows_raises" ->
                Effect(<<GetTableCall(destination_table),
                         InsertRowsCall(TableHandle(destination_table), data,
                                        selected_fields, kwargs)>>,
                       Raised(env.err, <<>>))
           [] env.step = "ok" ->
                Effect(<<GetTableCall(destination_table),
                         InsertRowsCall(TableHandle(destination_table), data,
                                        selected_fields, kwargs)>>,
                       IF Len(env.errs) > 0 THEN Raised("RuntimeError", env.errs)
                       ELSE ReturnedVal(None))

\* faulty variant: the per-row errors are dropped
insert_silent(destination_table, data, selected_fields, kwargs, env) ==
    IF ~Truthy(data) THEN Effect(<<>>, ReturnedVal(None))
    ELSE CASE env.step = "get_table_raises" ->
                Effect(<<GetTableCall(destination_table)>>, Raised(env.err, <<>>))
           [] env.step = "insert_rows_raises" ->
                Effect(<<GetTableCall(destination_table),
                         InsertRowsCall(TableHandle(destination_table), data,
                                        selected_fields, kwargs)>>,
                       Raised(env.err, <<>>))
           [] env.step = "ok" ->
                Effect(<<GetTableCall(destination_table),
                         InsertRowsCall(TableHandle(destination_table), data,
                                        selected_fields, kwargs)>>,
                       ReturnedVal(None))

insert(destination_table, data, selected_fields, kwargs, env) ==
    IF ~Truthy(data) THEN Effect(<<>>, ReturnedVal(None))
    ELSE CASE env.step = "get_table_raises" ->
                Effect(<<GetTableCall(destination_table)>>, Raised(env.err, <<>>))
           [] env.step = "insert_rows_raises" ->
                Effect(<<GetTableCall(destination_table),
                         InsertRowsCall(TableHandle(destination_table), data,
                                        selected_fields, kwargs)>>,
                       Raised(env.err, <<>>))
           [] env.step = "ok" ->
                Effect(<<GetTableCall(destination_table),
                         InsertRowsCall(TableHandle(destination_table), data,
                                        selected_fields, kwargs)>>,
                       IF Len(env.errs) > 0 THEN Raised("RuntimeError", env.errs)
                       ELSE ReturnedVal(None))

\* faulty variant: the null of an empty result is returned as it is
get_last_id_nodefault(destination_table, env) ==
    LET last_id == select(destination_table, "MAX(Id)", NoneSeq, EmptyDict, env)
    IN IF last_id.outcome.kind = "raise" THEN last_id
       ELSE Effect(last_id.calls, ReturnedVal(get_one_result(last_id.outcome.rows)))

get_last_id(destination_table, env) ==
    LET last_id == select(destination_table, "MAX(Id)", NoneSeq, EmptyDict, env)
        one == get_one_result(last_id.outcome.rows)
    IN IF last_id.outcome.kind = "raise" THEN last_id
       ELSE Effect(last_id.calls, ReturnedVal(IF TruthyVal(one) THEN one ELSE Int_(0)))

get_service_item(item_table, item, env) ==
    LET item_info == List(<<[name |-> Str("item_name"), type |-> Str("STRING"),
                            value |-> Str(item)]>>)
        res == select(item_table, "item_value", item_info, EmptyDict, env)
    IN IF res.outcome.kind = "raise" THEN res
       ELSE Effect(res.calls, ReturnedVal(get_one_result(res.outcome.rows)))

(***************************************************************************)
(* The inputs explored.                                                    *)
(***************************************************************************)
SeqsUpTo(S, n) == UNION {[1..k -> S] : k \in 0..n}

\* parameter descriptors; the last one has no "name" key
Descriptors ==
    { [name |-> Str("param1"), type |-> Str("STRING"), value |-> Str("value1")],
      [name |-> Str("param2"), type |-> Str("INT64"), value |-> Int_(104)],
      [type |-> Str("STRING"), value |-> Str("value1")] }

\* params / filters: absent, a list or a non-list sequence of descriptors
ParamSeqs ==
    {NoneSeq} \cup {List(s) : s \in SeqsUpTo(Descriptors, MaxParams)}
              \cup {Tuple(s) : s \in SeqsUpTo(Descriptors, MaxParams)}

StaleParameter == ScalarQueryParameter(Str("old"), Str("STRING"), Str("stale"))

\* **job_configs as the caller gives them
JobOptions ==
    { EmptyDict,
      [write_disposition |-> "WRITE_TRUNCATE"],
      [query_parameters |-> List(<<StaleParameter>>)],
      [query_parameters |-> List(<<>>)],
      [write_disposition |-> "WRITE_TRUNCATE",
       query_parameters |-> List(<<StaleParameter>>)] }

Sqls == {"SELECT * FROM dataset.table"}
Procedures == {"dataset.stored_procedure"}
Tables == {"dataset.table", "dataset.items"}
SelectClauses == {"select_column"}
Items == {"item1"}

ClientErrors == {"Forbidden", "BadRequest"}

\* rows of a result set: at least one column each
ResultRows == {<<Int_(7)>>, <<Int_(0)>>, <<None>>, <<Int_(-3), Str("x")>>}
Results == SeqsUpTo(ResultRows, MaxRows)

\* any iterable of rows, a row possibly empty
AnyRows == ResultRows \cup {<<>>, <<Str("result_value")>>}
Iterables == SeqsUpTo(AnyRows, MaxRows)

IdleClient == [step |-> "idle", err |-> "", rows |-> <<>>, errs |-> <<>>]
QueryEnvs ==
    {[step |-> "query_raises", err |-> e, rows |-> <<>>, errs |-> <<>>] : e \in ClientErrors}
    \cup {[step |-> "result_raises", err |-> e, rows |-> <<>>, errs |-> <<>>] : e \in ClientErrors}
    \cup {[step |-> "ok", err |-> "", rows |-> r, errs |-> <<>>] : r \in Results}

RowErrors == {"error when insert to bigquery"}
InsertEnvs ==
    {[step |-> "get_table_raises", err |-> e, rows |-> <<>>, errs |-> <<>>] : e \in ClientErrors}
    \cup {[step |-> "insert_rows_raises", err |-> e, rows |-> <<>>, errs |-> <<>>] : e \in ClientErrors}
    \cup {[step |-> "ok", err |-> "", rows |-> <<>>, errs |-> es] : es \in SeqsUpTo(RowErrors, MaxErrors)}

DataRows == {[column1 |-> "value1", column2 |-> "value2"], [column1 |-> "value3"]}
DataSeqs ==
    {NoneSeq} \cup {List(s) : s \in SeqsUpTo(DataRows, MaxRows)}
              \cup {Tuple(s) : s \in SeqsUpTo(DataRows, MaxRows)}
FieldSeqs == {NoneSeq, List(<<"column1">>)}
InsertOptions == {EmptyDict, [write_disposition |-> "WRITE_TRUNCATE"]}

(***************************************************************************)
(* The state machine.  The manager keeps nothing between calls (its only   *)
(* attribute is the client reference), so every call starts from the state *)
(* after construction.                                                     *)
(***************************************************************************)
NoOp == [name |-> "none"]

Init ==
    /\ op = NoOp
    /\ client = IdleClient
    /\ calls = <<>>
    /\ outcome = NoOutcome

\* no operation has been called yet
Fresh == op.name = "none"

Query ==
    /\ Fresh
    /\ \E sql \in Sqls, params \in ParamSeqs, job_configs \in JobOptions, env \in QueryEnvs :
          LET effect == query(<<sql>>, params, job_configs, env)
          IN /\ op' = [name |-> "query", sql |-> sql, params |-> params,
                       job_configs |-> job_configs]
             /\ client' = env
             /\ calls' = effect.calls
             /\ outcome' = effect.outcome

Invoke ==
    /\ Fresh
    /\ \E sp \in Procedures, params \in ParamSeqs, job_configs \in JobOptions,
          env \in QueryEnvs :
          LET effect == invoke(sp, params, job_configs, env)
          IN /\ op' = [name |-> "invoke", sp |-> sp, params |-> params,
                       job_configs |-> job_configs]
             /\ client' = env
             /\ calls' = effect.calls
             /\ outcome' = effect.outcome

Select ==
    /\ Fresh
    /\ \E table \in Tables, sel \in SelectClauses, filters \in ParamSeqs,
          job_configs \in JobOptions, env \in QueryEnvs :
          LET effect == select(table, sel, filters, job_configs, env)
          IN /\ op' = [name |-> "select", table |-> table, select |-> sel,
                       params |-> filters, job_configs |-> job_configs]
             /\ client' = env
             /\ calls' = effect.calls
             /\ outcome' = effect.outcome

Insert ==
    /\ Fresh
    /\ \E destination_table \in Tables, data \in DataSeqs, selected_fields \in FieldSeqs,
          kwargs \in InsertOptions, env \in InsertEnvs :
          LET effect == insert(destination_table, data, selected_fields, kwargs, env)
          IN /\ op' = [name |-> "insert", table |-> destination_table, data |-> data,
                       selected_fields |-> selected_fields, kwargs |-> kwargs]
             /\ client' = env
             /\ calls' = effect.calls
             /\ outcome' = effect.outcome

GetOneResult ==
    /\ Fresh
    /\ \E query_res \in Iterables :
          /\ op' = [name |-> "get_one_result", query_res |-> query_res]
          /\ client' = IdleClient
          /\ calls' = [i \in 1..first_row(query_res).consumed |-> IterNextCall]
          /\ outcome' = ReturnedVal(get_one_result(query_res))

GetLastId ==
    /\ Fresh
    /\ \E destination_table \in Tables, env \in QueryEnvs :
          LET effect == get_last_id(destination_table, env)
          IN /\ op' = [name |-> "get_last_id", table |-> destination_table]
             /\ client' = env
             /\ calls' = effect.calls
             /\ outcome' = effect.outcome

GetServiceItem ==
    /\ Fresh
    /\ \E item_table \in Tables, item \in Items, env \in QueryEnvs :
          LET effect == get_service_item(item_table, item, env)
          IN /\ op' = [name |-> "get_service_item", table |-> item_table, item |-> item]
             /\ client' = env
             /\ calls' = effect.calls
             /\ outcome' = effect.outcome

Next ==
    \/ Query
    \/ Invoke
    \/ Select
    \/ Insert
    \/ GetOneResult
    \/ GetLastId
    \/ GetServiceItem

Spec == Init /\ [][Next]_vars

(***************************************************************************)
(* Properties.                                                             *)
(***************************************************************************)
IsQueryOp == op.name \in {"query", "invoke", "select"}

\* the (name, type, value) triple of a descriptor; a missing field is null
Triple(d) ==
    [name |-> IF "name" \in DOMAIN d THEN d["name"] ELSE None,
     type_ |-> IF "type" \in DOMAIN d THEN d["type"] ELSE None,
     value |-> IF "value" \in DOMAIN d THEN d["value"] ELSE None]

\* the configuration binds exactly the descriptors ds, in their order
Binds(job_config, ds) ==
    /\ ~job_config.isNone
    /\ "query_parameters" \in DOMAIN job_config.options
    /\ job_config.options["query_parameters"].kind = "list"
    /\ Len(job_config.options["query_parameters"].items) = Len(ds)
    /\ \A i \in 1..Len(ds) :
          job_config.options["query_parameters"].items[i] = Triple(ds[i])

\* number of tokens of text equal to tok
Count(text, tok) == Cardinality({i \in 1..Len(text) : text[i] = tok})

\* C1: query with non-empty params hands the client the sql unchanged and a
\* configuration whose query_parameters are the triples of params, same
\* length and order, replacing a caller-supplied query_parameters, every
\* other job option forwarded unchanged.
C1_QueryBindsParams ==
    (op.name = "query" /\ Truthy(op.params)) =>
        /\ Len(calls) >= 1
        /\ calls[1].fn = "query"
        /\ calls[1].query = <<op.sql>>
        /\ Binds(calls[1].job_config, op.params.items)
        /\ DOMAIN calls[1].job_config.options =
              DOMAIN op.job_configs \cup {"query_parameters"}
        /\ \A k \in DOMAIN op.job_configs \ {"query_parameters"} :
              calls[1].job_config.options[k] = op.job_configs[k]

\* query ran with two different params, over a caller-supplied query_parameters
\* and another option
C1_Witness ==
    /\ op.name = "query"
    /\ Len(op.params.items) = 2
    /\ op.params.items[1] # op.params.items[2]
    /\ DOMAIN op.job_configs = {"query_parameters", "write_disposition"}
    /\ calls[1].job_config.options["query_parameters"]
          # op.job_configs["query_parameters"]

\* C2: query, invoke and select call the client's query entry point exactly
\* once, then wait once for the result; an error raised by the client at
\* either step is the error the caller gets, and no client call follows it.
C2_OneQueryOneWait ==
    IsQueryOp =>
        /\ Len(calls) >= 1
        /\ calls[1].fn = "query"
        /\ Cardinality({i \in 1..Len(calls) : calls[i].fn = "query"}) = 1
        /\ client.step = "query_raises" =>
              /\ Len(calls) = 1
              /\ outcome = Raised(client.err, <<>>)
        /\ client.step = "result_raises" =>
              /\ Len(calls) = 2
              /\ calls[2].fn = "result"
              /\ outcome = Raised(client.err, <<>>)
        /\ client.step = "ok" =>
              /\ Len(calls) = 2
              /\ calls[2].fn = "result"
              /\ outcome = Returned(client.rows)

\* a select whose submission the client refused
C2_Witness ==
    /\ op.name = "select"
    /\ client.step = "query_raises"
    /\ outcome.kind = "raise"
    /\ outcome.exc = "Forbidden"

\* C3: invoke with non-empty params sends CALL, the quoted procedure name and
\* exactly len(params) '?' markers separated by ', ', whatever the
\* descriptors' names, and binds the same params in the same order.
C3_InvokeMarkers ==
    (op.name = "invoke" /\ Truthy(op.params)) =>
        LET n == Len(op.params.items)
            sql == calls[1].query
        IN /\ Len(sql) = 5 + (2 * n - 1) + 1
           /\ SubSeq(sql, 1, 5) = <<"CALL ", BQ, op.sp, BQ, "(">>
           /\ \A i \in 1..n : sql[5 + 2 * i - 1] = "?"
           /\ \A i \in 1..(n - 1) : sql[5 + 2 * i] = ", "
           /\ sql[Len(sql)] = ");"
           /\ Count(sql, "?") = n
           /\ Binds(calls[1].job_config, op.params.items)

\* the invoke of the test suite: two descriptors without a name
C3_Witness ==
    /\ op.name = "invoke"
    /\ Len(op.params.items) = 2
    /\ \A i \in 1..2 : "name" \notin DOMAIN op.params.items[i]
    /\ Render(calls[1].query) = "CALL " \o BQ \o "dataset.stored_procedure" \o BQ \o "(?, ?);"

\* the name a filter is known by in the SQL text
FilterName(d) == IF "name" \in DOMAIN d THEN d["name"].s ELSE "None"

\* C4: select with a non-empty filters list sends SELECT sel FROM table WHERE
\* with one term 'name = @name' per filter, joined by ' AND ', in list order,
\* and binds the filters in that order.
C4_SelectWhere ==
    (op.name = "select" /\ IsList(op.params) /\ Truthy(op.params)) =>
        LET n == Len(op.params.items)
            sql == calls[1].query
        IN /\ Len(sql) = 7 + (4 * n - 1) + 1
           /\ SubSeq(sql, 1, 7) =
                 <<"SELECT ", op.select, " FROM ", BQ, op.table, BQ, " WHERE ">>
           /\ \A i \in 1..n :
                 SubSeq(sql, 4 * i + 4, 4 * i + 6) =
                    <<FilterName(op.params.items[i]), " = @",
                      FilterName(op.params.items[i])>>
           /\ \A i \in 1..(n - 1) : sql[4 * i + 7] = " AND "
           /\ sql[Len(sql)] = ";"
           /\ Count(sql, " = @") = n
           /\ Binds(calls[1].job_config, op.params.items)

\* the select of the test suite: two named filters and a job option
C4_Witness ==
    /\ op.name = "select"
    /\ IsList(op.params)
    /\ Len(op.params.items) = 2
    /\ op.job_configs = [write_disposition |-> "WRITE_TRUNCATE"]
    /\ Render(calls[1].query) =
          "SELECT select_column FROM " \o BQ \o "dataset.table" \o BQ
          \o " WHERE param1 = @param1 AND param2 = @param2;"

\* C5: select with filters that is not a list, or an empty list, sends
\* exactly SELECT sel FROM table; and binds no query parameters: the
\* configuration holds the caller's job options and nothing else.
C5_NoFiltersNoParams ==
    (op.name = "select" /\ ~(IsList(op.params) /\ Truthy(op.params))) =>
        /\ calls[1].query = <<"SELECT ", op.select, " FROM ", BQ, op.table, BQ, ";">>
        /\ calls[1].job_config.options = op.job_configs

\* C6: insert with non-empty rows, the client returning from both calls:
\* get_table, then insert_rows exactly once with the handle, the rows, the
\* field subset and the options; RuntimeError carrying the per-row errors
\* if and only if there are any, otherwise a plain return.
C6_InsertReportsErrors ==
    (op.name = "insert" /\ Truthy(op.data) /\ client.step = "ok") =>
        /\ calls = <<GetTableCall(op.table),
                     InsertRowsCall(TableHandle(op.table), op.data,
                                    op.selected_fields, op.kwargs)>>
        /\ (outcome.kind = "raise") <=> (Len(client.errs) > 0)
        /\ outcome.kind = "raise" =>
              /\ outcome.exc = "RuntimeError"
              /\ outcome.errs = client.errs
        /\ outcome.kind # "raise" => outcome = ReturnedVal(None)

\* an insert of one row that the client reports an error for
C6_Witness ==
    /\ op.name = "insert"
    /\ Len(op.data.items) = 1
    /\ client.step = "ok"
    /\ Len(client.errs) = 1
    /\ outcome.exc = "RuntimeError"

\* C7: insert with empty or absent rows makes no client call and returns,
\* whatever the table, the field subset and the options.
C7_InsertEmptyNoCalls ==
    (op.name = "insert" /\ ~Truthy(op.data)) =>
        /\ calls = <<>>
        /\ outcome = ReturnedVal(None)

\* an insert of an empty list, with fields and options, on a client that
\* would have raised
C7_Witness ==
    /\ op.name = "insert"
    /\ op.data = List(<<>>)
    /\ op.selected_fields # NoneSeq
    /\ op.kwargs # EmptyDict
    /\ client.step = "get_table_raises"
    /\ outcome.kind = "return"

\* C8 as stated: null for an empty iterable, otherwise the first element of
\* the first row, whatever the row is.
C8_FirstElementOfAnyRow ==
    op.name = "get_one_result" =>
        IF Len(op.query_res) = 0 THEN outcome = ReturnedVal(None)
        ELSE /\ Len(op.query_res[1]) > 0
             /\ outcome = ReturnedVal(op.query_res[1][1])

\* C8 amended: null for an empty iterable and for a first row that is empty;
\* otherwise the first element of the first row, whatever that element is;
\* at most one row is pulled from the iterable.
C8_FirstElementOfNonEmptyRow ==
    op.name = "get_one_result" =>
        /\ Len(calls) <= 1
        /\ \A i \in 1..Len(calls) : calls[i].fn = "next"
        /\ outcome.kind = "return"
        /\ outcome.val = IF Len(op.query_res) = 0 \/ Len(op.query_res[1]) = 0
                         THEN None
                         ELSE op.query_res[1][1]

\* two rows with different first elements, the first of them falsy
C8_Witness ==
    /\ op.name = "get_one_result"
    /\ Len(op.query_res) = 2
    /\ op.query_res[1] = <<Int_(0)>>
    /\ op.query_res[2] = <<Int_(7)>>
    /\ outcome.val = Int_(0)

\* C9: get_last_id issues one select of MAX(Id) on the table without filters
\* (no configuration), returns 0 when there is no row or the value is null,
\* and the integer of the first row's first column otherwise.
C9_LastId ==
    op.name = "get_last_id" =>
        /\ Len(calls) >= 1
        /\ calls[1] = QueryCall(<<"SELECT ", "MAX(Id)", " FROM ", BQ, op.table, BQ, ";">>,
                                NoJobConfig)
        /\ Cardinality({i \in 1..Len(calls) : calls[i].fn = "query"}) = 1
        /\ client.step = "ok" =>
              /\ outcome.kind = "return"
              /\ outcome.val.t = "int"
              /\ outcome.val =
                    IF Len(client.rows) = 0 \/ client.rows[1][1] = None
                    THEN Int_(0)
                    ELSE client.rows[1][1]

\* MAX(Id) of an empty table
C9_Witness ==
    /\ op.name = "get_last_id"
    /\ client.step = "ok"
    /\ client.rows = <<<<None>>>>
    /\ outcome.val = Int_(0)

\* C10: the configuration handed to the client is absent exactly when params
\* is empty or absent and the caller gave no job options; otherwise it is
\* built from the merged options; also through invoke and select.
C10_ConfigIffOptions ==
    IsQueryOp =>
        LET injected == IF Truthy(op.params) THEN {"query_parameters"} ELSE {}
            job_config == calls[1].job_config
        IN /\ job_config.isNone <=> (~Truthy(op.params) /\ DOMAIN op.job_configs = {})
           /\ ~job_config.isNone =>
                 /\ DOMAIN job_config.options = DOMAIN op.job_configs \cup injected
                 /\ \A k \in DOMAIN op.job_configs \ injected :
                       job_config.options[k] = op.job_configs[k]
                 /\ Truthy(op.params) => Binds(job_config, op.params.items)

\* an invoke without params or options: no configuration
C10_Witness ==
    /\ op.name = "invoke"
    /\ op.params = List(<<>>)
    /\ op.job_configs = EmptyDict
    /\ calls[1].job_config = NoJobConfig

====
